---- MODULE Spec2Model ----
(***************************************************************************)
(* State-machine model of vllm/model_executor/models/xlm_roberta.py:       *)
(* the XLMRobertaModel adapter (construction, load_weights, forward,       *)
(* get_extended_attention_mask).                                           *)
(*                                                                         *)
(* Tensors are records [type, shape, val]: shape is the tuple of           *)
(* dimensions and val maps every 0-based index tuple to the element.       *)
(* The transformers sub-modules (embeddings, encoder, pooler) are external *)
(* code; they are abstracted by small integer functions of their inputs    *)
(* and of the parameters they read.  config.use_return_dict keeps the      *)
(* transformers default (True), config.is_decoder its default (False).     *)
(***************************************************************************)
EXTENDS Integers, Sequences, FiniteSets, TLC

VARIABLES
    linear_method,            \* __init__ argument
    lora_config,              \* __init__ argument
    config,                   \* __init__ argument: [name_or_path]
    ipc,                      \* position of __init__
    self_attrs,               \* attributes __init__ has set on the instance
    hf_model,                 \* TRUE once XLMRobertaModelHF(config) was instantiated
    params,                   \* named_parameters(): name -> [shape, val]
    params0,                  \* the parameters as the constructor left them
    source,                   \* pairs hf_model_weights_iterator yields
    lpc,                      \* position of load_weights
    lidx,                     \* pairs load_weights has consumed and copied
    input_ids,                \* forward argument, tensor (N, L)
    slot_mapping,             \* input_metadata.slot_mapping, tensor (N, L)
    fpc,                      \* position of forward
    range_it,                 \* the iterator over range(0, N, batch_size)
    start_index,              \* forward local
    batch_size,               \* forward local (reassigned in the loop body)
    ids,                      \* forward local
    attention_mask,           \* forward local
    extended_attention_mask,  \* forward local
    embedding_output,         \* forward local
    tensor_list,              \* forward local
    result,                   \* what forward returned or raised
    mpc,                      \* position of a direct mask-expansion call
    m_slots,                  \* slot-mapping slice a mask is derived from
    m_mask,                   \* attention_mask argument of the direct call
    m_ret                     \* what get_extended_attention_mask returned or raised

ctor_vars == <<linear_method, lora_config, config, ipc, self_attrs, hf_model>>
param_vars == <<params, params0>>
load_vars == <<source, lpc, lidx>>
fwd_vars == <<input_ids, slot_mapping, fpc, range_it, start_index, batch_size,
              ids, attention_mask, extended_attention_mask, embedding_output,
              tensor_list, result>>
mask_vars == <<mpc, m_slots, m_mask, m_ret>>
vars == <<ctor_vars, param_vars, load_vars, fwd_vars, mask_vars>>

-----------------------------------------------------------------------------
(* Bounds of the model *)

\* largest leading dimension of a forward input
MaxN == 25
\* largest leading dimension of a forward input in the life-cycle specification
LifeMaxN == 1
\* sequence length L of forward inputs
SeqLen == 2
\* longest weight source
MaxSrc == 2
\* largest rank of a mask handed directly to get_extended_attention_mask
MaxRank == 5
\* largest number of elements of such a mask
MaxElems == 6

(* Program constants *)

\* forward: batch_size = 12
ChunkSize == 12
\* torch.finfo(torch.float16).min
FP16_MIN == -65504
\* the slot-mapping value of an unused position
UNUSED_SLOT == -1
\* eps of torch.nn.functional.normalize (1e-12), in units of the model's
\* hidden-state values: a vector of L2 norm below EPS is divided by EPS
EPS == 2

-----------------------------------------------------------------------------
(* Tensors *)

RECURSIVE Prod(_)
Prod(s) == IF s = <<>> THEN 1 ELSE s[1] * Prod(Tail(s))

RECURSIVE IndexSet(_)
IndexSet(shape) ==
    IF shape = <<>> THEN {<<>>}
    ELSE {<<i>> \o rest : i \in 0..(shape[1] - 1), rest \in IndexSet(Tail(shape))}

NoTensor == [shape |-> <<>>, type |-> "None", val |-> <<>>]

Min(a, b) == IF a < b THEN a ELSE b
Max(a, b) == IF a > b THEN a ELSE b

Dim(t) == Len(t.shape)

\* t[start:stop, ...] with Python's clamping of the slice bounds
SliceRows(t, start, stop) ==
    LET n == t.shape[1]
        lo == Min(start, n)
        hi == Max(lo, Min(stop, n))
        shape == <<hi - lo>> \o Tail(t.shape)
    IN [shape |-> shape, type |-> "Tensor",
        val |-> [idx \in IndexSet(shape) |-> t.val[<<idx[1] + lo>> \o Tail(idx)]]]

\* (slot_mapping[...] != -1).int()
SlotsToMask(slots) ==
    [shape |-> slots.shape, type |-> "Tensor",
     val |-> [idx \in IndexSet(slots.shape) |->
                 IF slots.val[idx] # UNUSED_SLOT THEN 1 ELSE 0]]

\* t[:, None, :, :]
Unsqueeze3(t) ==
    LET shape == <<t.shape[1], 1, t.shape[2], t.shape[3]>>
    IN [shape |-> shape, type |-> "Tensor",
        val |-> [idx \in IndexSet(shape) |-> t.val[<<idx[1], idx[3], idx[4]>>]]]

\* t[:, None, None, :]
Unsqueeze2(t) ==
    LET shape == <<t.shape[1], 1, 1, t.shape[2]>>
    IN [shape |-> shape, type |-> "Tensor",
        val |-> [idx \in IndexSet(shape) |-> t.val[<<idx[1], idx[4]>>]]]

\* t.to(dtype=torch.float16) for the integers float16 represents exactly;
\* larger magnitudes lose their low bits (11-bit significand)
ToFloat16(x) ==
    IF x \in -2048..2048 THEN x
    ELSE LET a == IF x < 0 THEN -x ELSE x
             step == IF a < 4096 THEN 2 ELSE IF a < 8192 THEN 4
                     ELSE IF a < 16384 THEN 8 ELSE IF a < 32768 THEN 16 ELSE 32
             r == ((a + step \div 2) \div step) * step
         IN IF x < 0 THEN -r ELSE r

\* (1.0 - extended_attention_mask) * torch.finfo(dtype).min
InvertAndScale(t) ==
    [shape |-> t.shape, type |-> "Tensor",
     val |-> [idx \in IndexSet(t.shape) |-> (1 - ToFloat16(t.val[idx])) * FP16_MIN]]

ValueError == [status |-> "ValueError", value |-> NoTensor]

Returned(t) == [status |-> "ok", value |-> t]

\* faulty variant: the expanded mask is scaled without being inverted
GetExtendedAttentionMask_NotInverted(mask) ==
    IF Dim(mask) = 3 THEN
        Returned([InvertAndScale(Unsqueeze3(mask)) EXCEPT
                    !.val = [idx \in DOMAIN @ |-> FP16_MIN - @[idx]]])
    ELSE IF Dim(mask) = 2 THEN
        Returned([InvertAndScale(Unsqueeze2(mask)) EXCEPT
                    !.val = [idx \in DOMAIN @ |-> FP16_MIN - @[idx]]])
    ELSE ValueError

\* faulty variant: a mask that is already 4-dimensional is accepted as it is
GetExtendedAttentionMask_Rank4(mask) ==
    IF Dim(mask) = 3 THEN Returned(InvertAndScale(Unsqueeze3(mask)))
    ELSE IF Dim(mask) = 2 THEN Returned(InvertAndScale(Unsqueeze2(mask)))
    ELSE IF Dim(mask) = 4 THEN Returned(InvertAndScale(mask))
    ELSE ValueError

GetExtendedAttentionMask(mask) ==
    IF Dim(mask) = 3 THEN Returned(InvertAndScale(Unsqueeze3(mask)))
    ELSE IF Dim(mask) = 2 THEN Returned(InvertAndScale(Unsqueeze2(mask)))
    ELSE ValueError

-----------------------------------------------------------------------------
(* Direct calls of the mask operations *)

Shapes(rank) == {s \in [1..rank -> 1..MaxElems] : Prod(s) <= MaxElems}

MaskTensors ==
    UNION {{[shape |-> s, type |-> "Tensor", val |-> v] : v \in [IndexSet(s) -> {0, 1}]} :
             s \in UNION {Shapes(r) : r \in 0..MaxRank}}

SlotTensors ==
    UNION {{[shape |-> s, type |-> "Tensor", val |-> v] :
              v \in [IndexSet(s) -> {UNUSED_SLOT, 0, 7}]} :
             s \in {sh \in Shapes(2) : Prod(sh) <= 4}}

MaskIdle == mpc = "idle" /\ m_slots = NoTensor /\ m_mask = NoTensor /\ m_ret = Returned(NoTensor)

\* line 89 applied to a slot-mapping slice
MaskDerive ==
    /\ mpc = "slots"
    /\ m_mask' = SlotsToMask(m_slots)
    /\ mpc' = "mask"
    /\ UNCHANGED <<m_slots, m_ret>>

MaskExtend ==
    /\ mpc = "mask"
    /\ m_ret' = GetExtendedAttentionMask(m_mask)
    /\ mpc' = "done"
    /\ UNCHANGED <<m_slots, m_mask>>

-----------------------------------------------------------------------------
(* __init__ *)

BGE_M3 == "BAAI/bge-m3"

LinearMethods == {"None", "UnquantizedLinearMethod", "QuantizedLinearMethod"}
LoraConfigs == {"None", "LoRAConfig"}
Configs == {[name_or_path |-> n, num_hidden_layers |-> 1] : n \in {BGE_M3, "xlm-roberta-base"}}

ParamNames == {"embeddings.word_embeddings.weight",
               "encoder.layer.0.attention.self.query.weight"}
EmbParam == "embeddings.word_embeddings.weight"
EncParam == "encoder.layer.0.attention.self.query.weight"

\* every parameter of the model has this shape
ParamShape == <<1>>

\* torch.empty storage (the initialisers are replaced by skip): any content
UninitVals == {0, 1}

Unallocated == [n \in ParamNames |-> [shape |-> <<>>, val |-> 0]]

\* faulty variant: every non-null linear method is refused
QuantizationRequested_AnyMethod(lm) == lm # "None"

\* linear_method is not None and not isinstance(linear_method, UnquantizedLinearMethod)
QuantizationRequested(lm) == lm # "None" /\ lm # "UnquantizedLinearMethod"

InitCheckQuantization ==
    /\ ipc = "start"
    /\ ipc' = IF QuantizationRequested(linear_method)
              THEN "NotImplementedError" ELSE "check_lora"
    /\ UNCHANGED <<linear_method, lora_config, config, self_attrs, hf_model>>
    /\ UNCHANGED <<param_vars, load_vars, fwd_vars, mask_vars>>

InitCheckLora ==
    /\ ipc = "check_lora"
    /\ ipc' = IF lora_config # "None" THEN "NotImplementedError" ELSE "set_config"
    /\ UNCHANGED <<linear_method, lora_config, config, self_attrs, hf_model>>
    /\ UNCHANGED <<param_vars, load_vars, fwd_vars, mask_vars>>

InitSetConfig ==
    /\ ipc = "set_config"
    /\ self_attrs' = self_attrs \cup {"config", "linear_method"}
    /\ ipc' = "make_hf"
    /\ UNCHANGED <<linear_method, lora_config, config, hf_model>>
    /\ UNCHANGED <<param_vars, load_vars, fwd_vars, mask_vars>>

InitMakeHF ==
    /\ ipc = "make_hf"
    /\ hf_model' = TRUE
    /\ \E v \in [ParamNames -> UninitVals] :
          params' = [n \in ParamNames |-> [shape |-> ParamShape, val |-> v[n]]]
    /\ params0' = params'
    /\ ipc' = "take_modules"
    /\ UNCHANGED <<linear_method, lora_config, config, self_attrs>>
    /\ UNCHANGED <<load_vars, fwd_vars, mask_vars>>

InitTakeModules ==
    /\ ipc = "take_modules"
    /\ self_attrs' = self_attrs \cup {"embeddings", "encoder", "pooler"}
    /\ ipc' = "done"
    /\ UNCHANGED <<linear_method, lora_config, config, hf_model>>
    /\ UNCHANGED <<param_vars, load_vars, fwd_vars, mask_vars>>

-----------------------------------------------------------------------------
(* load_weights *)

\* the values the checkpoint's tensors hold
LoadedVals == {3}

SourcePairs ==
    {[name |-> n, shape |-> s, val |-> v] :
        n \in ParamNames \cup {"lm_head.decoder.weight"}, s \in {<<1>>, <<2>>},
        v \in LoadedVals}

\* hf_model_weights_iterator: a finite sequence of (name, tensor) pairs
Sources == UNION {[1..k -> SourcePairs] : k \in 0..MaxSrc}

\* assert param.size() == loaded_weight.size(); param.data.copy_(loaded_weight)
DefaultWeightLoader(param, loaded_weight) ==
    IF param.shape # loaded_weight.shape
    THEN [param |-> param, status |-> "AssertionError"]
    ELSE [param |-> [param EXCEPT !.val = loaded_weight.val], status |-> "ok"]

\* faulty variant: a name the model does not have is skipped
LoadPair_SkipUnknown(ps, pair) ==
    IF pair.name \notin DOMAIN ps THEN [params |-> ps, status |-> "ok"]
    ELSE LET r == DefaultWeightLoader(ps[pair.name], pair)
         IN [params |-> [ps EXCEPT ![pair.name] = r.param], status |-> r.status]

\* param = params_dict[name]; default_weight_loader(param, loaded_weight)
LoadPair(ps, pair) ==
    IF pair.name \notin DOMAIN ps THEN [params |-> ps, status |-> "KeyError"]
    ELSE LET r == DefaultWeightLoader(ps[pair.name], pair)
         IN [params |-> [ps EXCEPT ![pair.name] = r.param], status |-> r.status]

LoadCall ==
    /\ ipc = "done"
    /\ lpc = "idle"
    /\ \E src \in Sources : source' = src
    /\ lpc' = "running"
    /\ lidx' = 0
    /\ UNCHANGED <<ctor_vars, param_vars, fwd_vars, mask_vars>>

LoadStep ==
    /\ lpc = "running"
    /\ IF lidx = Len(source)
       THEN /\ lpc' = "done"
            /\ UNCHANGED <<params, lidx>>
       ELSE LET r == LoadPair(params, source[lidx + 1])
            IN /\ params' = r.params
               /\ lpc' = IF r.status = "ok" THEN "running" ELSE r.status
               /\ lidx' = IF r.status = "ok" THEN lidx + 1 ELSE lidx
    /\ UNCHANGED <<ctor_vars, params0, source, fwd_vars, mask_vars>>

-----------------------------------------------------------------------------
(* forward *)

\* feature axis of the encoder abstraction: (token embedding, attended context)
HiddenIdx == {0, 1}

\* values of the seeds the forward inputs are generated from
Seeds == 0..1
\* token ids are below Vocab
Vocab == 5

\* the (n, SeqLen) token-id tensor of seed a
MakeIds(n, a) ==
    [shape |-> <<n, SeqLen>>, type |-> "Tensor",
     val |-> [idx \in IndexSet(<<n, SeqLen>>) |->
                IF idx[2] = 0 THEN (a + idx[1]) % Vocab
                ELSE (a + (idx[1] \div ChunkSize) + idx[2]) % Vocab]]

\* the (n, SeqLen) slot mapping of seed c: every third position is unused
MakeSlots(n, c) ==
    [shape |-> <<n, SeqLen>>, type |-> "Tensor",
     val |-> [idx \in IndexSet(<<n, SeqLen>>) |->
                IF (idx[1] + idx[2] + c) % 3 = 0 THEN UNUSED_SLOT
                ELSE idx[1] * SeqLen + idx[2]]]

Inputs(maxN, seeds) ==
    {[ids |-> MakeIds(n, a), slots |-> MakeSlots(n, c)] :
        n \in 0..maxN, a \in seeds, c \in seeds}

\* range(start, stop, step)
Range(start, stop, step) == [next |-> start, step |-> step, stop |-> stop]

\* faulty variant: the loop runs once more when the stop value is reached
RangeExhausted_Inclusive(it) == it.next > it.stop

RangeExhausted(it) == it.next >= it.stop

\* buffered_token_type_ids.expand(batch_size, seq_length) / torch.zeros(input_shape)
TokenTypeIds(shape) ==
    [shape |-> shape, type |-> "Tensor", val |-> [idx \in IndexSet(shape) |-> 0]]

\* [None] * num_hidden_layers
GetHeadMask(head_mask, num_hidden_layers) == [i \in 1..num_hidden_layers |-> "None"]

\* self.embeddings(input_ids=ids, token_type_ids=...): one value per token
Embeddings(t_ids, token_type_ids, ps) ==
    [shape |-> t_ids.shape, type |-> "Tensor",
     val |-> [idx \in IndexSet(t_ids.shape) |->
                (t_ids.val[idx] + token_type_ids.val[idx]) * ps[EmbParam].val]]

RECURSIVE AttendedSum(_, _, _, _)
\* sum of the embeddings of the positions 0..t of row b whose additive bias is 0
AttendedSum(emb, ext, b, t) ==
    IF t < 0 THEN 0
    ELSE (IF ext.val[<<b, 0, 0, t>>] = 0 THEN emb.val[<<b, t>>] ELSE 0)
         + AttendedSum(emb, ext, b, t - 1)

\* self.encoder(embedding_output, attention_mask=extended_attention_mask, ...)[0]
Encoder(emb, ext, head_mask, ps) ==
    LET shape == emb.shape \o <<2>>
    IN [shape |-> shape, type |-> "Tensor",
        val |-> [idx \in IndexSet(shape) |->
                   IF idx[3] = 0 THEN emb.val[<<idx[1], idx[2]>>]
                   ELSE ps[EncParam].val
                        * AttendedSum(emb, ext, idx[1], emb.shape[2] - 1)]]

\* self.pooler(sequence_output): a function of the first token's hidden state
Pooler(sequence_output) ==
    LET shape == <<sequence_output.shape[1], sequence_output.shape[3]>>
    IN [shape |-> shape, type |-> "Tensor",
        val |-> [idx \in IndexSet(shape) |->
                   <<"tanh", sequence_output.val[<<idx[1], 0, idx[2]>>]>>]]

BaseModelOutputWithPoolingAndCrossAttentions(last_hidden_state, pooler_output) ==
    [last_hidden_state |-> last_hidden_state, pooler_output |-> pooler_output,
     type |-> "BaseModelOutputWithPoolingAndCrossAttentions"]

\* faulty variant: the last token is taken
DenseEmbedding_LastToken(hidden_state, mask) ==
    LET shape == <<hidden_state.shape[1], hidden_state.shape[3]>>
    IN [shape |-> shape, type |-> "Tensor",
        val |-> [idx \in IndexSet(shape) |->
                   hidden_state.val[<<idx[1], hidden_state.shape[2] - 1, idx[2]>>]]]

\* hidden_state[:, 0]
DenseEmbedding(hidden_state, mask) ==
    LET shape == <<hidden_state.shape[1], hidden_state.shape[3]>>
    IN [shape |-> shape, type |-> "Tensor",
        val |-> [idx \in IndexSet(shape) |-> hidden_state.val[<<idx[1], 0, idx[2]>>]]]

RECURSIVE SumSq(_, _, _)
\* sum of the squares of t[b, 0..h]
SumSq(t, b, h) ==
    IF h < 0 THEN 0 ELSE t.val[<<b, h>>] * t.val[<<b, h>>] + SumSq(t, b, h - 1)

\* torch.nn.functional.normalize(t, dim=-1): t / max(||t||_2, eps) along the
\* last axis.  An element <<x, d>> stands for the real number x / sqrt(d).
Normalize(t) ==
    [shape |-> t.shape, type |-> "Tensor",
     val |-> [idx \in IndexSet(t.shape) |->
                <<t.val[idx], Max(SumSq(t, idx[1], t.shape[2] - 1), EPS * EPS)>>]]

\* concatenation of two tensors along dim 0
Cat2(x, y) ==
    LET shape == <<x.shape[1] + y.shape[1]>> \o Tail(x.shape)
    IN [shape |-> shape, type |-> "Tensor",
        val |-> [idx \in IndexSet(shape) |->
                   IF idx[1] < x.shape[1] THEN x.val[idx]
                   ELSE y.val[<<idx[1] - x.shape[1]>> \o Tail(idx)]]]

RECURSIVE CatAll(_)
CatAll(list) ==
    IF Len(list) = 1 THEN list[1]
    ELSE Cat2(CatAll(SubSeq(list, 1, Len(list) - 1)), list[Len(list)])

\* torch.cat(tensors, dim=0): needs a non-empty list whose elements are tensors
TorchCat(list) ==
    IF Len(list) = 0 THEN [status |-> "RuntimeError", value |-> NoTensor]
    ELSE IF \E i \in 1..Len(list) : list[i].type # "Tensor"
         THEN [status |-> "TypeError", value |-> NoTensor]
         ELSE Returned(CatAll(list))

\* faulty variant: the chunk's result is put in front of the earlier ones
ListAppend_Front(list, x) == <<x>> \o list

\* tensor_list.append(output)
ListAppend(list, x) == Append(list, x)

ForwardIdle ==
    /\ input_ids = NoTensor /\ slot_mapping = NoTensor
    /\ fpc = "idle"
    /\ range_it = Range(0, 0, 0)
    /\ start_index = 0 /\ batch_size = 0
    /\ ids = NoTensor /\ attention_mask = NoTensor
    /\ extended_attention_mask = NoTensor /\ embedding_output = NoTensor
    /\ tensor_list = <<>>
    /\ result = [status |-> "none", value |-> NoTensor]

\* the call and lines 81-82, 87 (the range is built once, from batch_size = 12)
ForwardEnter(inputs) ==
    /\ ipc = "done"
    /\ fpc = "idle"
    /\ \E inp \in inputs :
          /\ input_ids' = inp.ids
          /\ slot_mapping' = inp.slots
          /\ range_it' = Range(0, inp.ids.shape[1], ChunkSize)
    /\ batch_size' = ChunkSize
    /\ tensor_list' = <<>>
    /\ fpc' = "loop"
    /\ UNCHANGED <<start_index, ids, attention_mask, extended_attention_mask,
                   embedding_output, result>>
    /\ UNCHANGED <<ctor_vars, param_vars, load_vars, mask_vars>>

\* faulty variant: inference waits until the weights are loaded
ForwardCall_AfterLoad(inputs) == lpc = "done" /\ ForwardEnter(inputs)

ForwardCall(inputs) == ForwardEnter(inputs)

\* lines 87-124 of one iteration
ChunkBegin ==
    /\ fpc = "loop"
    /\ ~RangeExhausted(range_it)
    /\ LET start == range_it.next
           c_ids == SliceRows(input_ids, start, start + batch_size)
           mask == SlotsToMask(SliceRows(slot_mapping, start, start + batch_size))
           input_shape == c_ids.shape
           ext == GetExtendedAttentionMask(mask)
       IN /\ start_index' = start
          /\ range_it' = [range_it EXCEPT !.next = @ + range_it.step]
          /\ ids' = c_ids
          /\ attention_mask' = mask
          /\ batch_size' = input_shape[1]
          /\ IF ext.status = "ok"
             THEN /\ extended_attention_mask' = ext.value
                  /\ embedding_output' =
                        Embeddings(c_ids, TokenTypeIds(input_shape), params)
                  /\ fpc' = "encode"
                  /\ UNCHANGED result
             ELSE /\ result' = ext
                  /\ fpc' = "raised"
                  /\ UNCHANGED <<extended_attention_mask, embedding_output>>
    /\ UNCHANGED <<input_ids, slot_mapping, tensor_list>>
    /\ UNCHANGED <<ctor_vars, param_vars, load_vars, mask_vars>>

\* lines 126-155 of one iteration
ChunkEncode ==
    /\ fpc = "encode"
    /\ LET head_mask == GetHeadMask("None", config.num_hidden_layers)
           sequence_output ==
               Encoder(embedding_output, extended_attention_mask, head_mask, params)
           pooled_output == Pooler(sequence_output)
           output == BaseModelOutputWithPoolingAndCrossAttentions(
                         sequence_output, pooled_output)
       IN tensor_list' =
            IF config.name_or_path = BGE_M3
            THEN ListAppend(tensor_list,
                     Normalize(DenseEmbedding(output.last_hidden_state, attention_mask)))
            ELSE ListAppend(tensor_list, output)
    /\ fpc' = "loop"
    /\ UNCHANGED <<input_ids, slot_mapping, range_it, start_index, batch_size, ids,
                   attention_mask, extended_attention_mask, embedding_output, result>>
    /\ UNCHANGED <<ctor_vars, param_vars, load_vars, mask_vars>>

\* line 157
ForwardReturn ==
    /\ fpc = "loop"
    /\ RangeExhausted(range_it)
    /\ result' = TorchCat(tensor_list)
    /\ fpc' = IF result'.status = "ok" THEN "returned" ELSE "raised"
    /\ UNCHANGED <<input_ids, slot_mapping, range_it, start_index, batch_size, ids,
                   attention_mask, extended_attention_mask, embedding_output,
                   tensor_list>>
    /\ UNCHANGED <<ctor_vars, param_vars, load_vars, mask_vars>>

-----------------------------------------------------------------------------
(* Specifications *)

CtorArgs ==
    /\ linear_method \in LinearMethods
    /\ lora_config \in LoraConfigs
    /\ config \in Configs

LoadIdle == source = <<>> /\ lpc = "idle" /\ lidx = 0

\* the life cycle of one instance: construction, then load_weights and forward
\* in any interleaving
Init ==
    /\ CtorArgs
    /\ ipc = "start" /\ self_attrs = {} /\ hf_model = FALSE
    /\ params = Unallocated /\ params0 = Unallocated
    /\ LoadIdle
    /\ ForwardIdle
    /\ MaskIdle

\* the requests of the life-cycle specification
LifeInputs == Inputs(LifeMaxN, Seeds)

ForwardCallLife == ForwardCall(LifeInputs)

Next ==
    \/ InitCheckQuantization
    \/ InitCheckLora
    \/ InitSetConfig
    \/ InitMakeHF
    \/ InitTakeModules
    \/ LoadCall
    \/ LoadStep
    \/ ForwardCallLife
    \/ ChunkBegin
    \/ ChunkEncode
    \/ ForwardReturn

Spec == Init /\ [][Next]_vars

Constructed ==
    /\ linear_method \in {"None", "UnquantizedLinearMethod"}
    /\ lora_config = "None"
    /\ config \in Configs
    /\ ipc = "done"
    /\ self_attrs = {"config", "linear_method", "embeddings", "encoder", "pooler"}
    /\ hf_model = TRUE

RECURSIVE ParamsAfter(_, _, _)
\* the parameters after the first k pairs of src were copied into ps
ParamsAfter(ps, src, k) ==
    IF k = 0 THEN ps
    ELSE LoadPair(ParamsAfter(ps, src, k - 1), src[k]).params

ValidSources ==
    {src \in Sources : \A i \in 1..Len(src) :
        src[i].name \in ParamNames /\ src[i].shape = ParamShape}

\* one forward call on a constructed instance whose load_weights has completed
InitForward ==
    /\ Constructed
    /\ \E v \in [ParamNames -> UninitVals] :
          params0 = [n \in ParamNames |-> [shape |-> ParamShape, val |-> v[n]]]
    /\ source \in ValidSources
    /\ lpc = "done"
    /\ lidx = Len(source)
    /\ params = ParamsAfter(params0, source, lidx)
    /\ ForwardIdle
    /\ MaskIdle

\* the requests of the forward specification
AllInputs == Inputs(MaxN, Seeds)

ForwardCallAny == ForwardCall(AllInputs)

NextForward ==
    \/ ForwardCallAny
    \/ ChunkBegin
    \/ ChunkEncode
    \/ ForwardReturn

SpecForward == InitForward /\ [][NextForward]_vars

\* direct calls of the mask operations on a constructed, idle instance
InitMask ==
    /\ Constructed
    /\ linear_method = "None"
    /\ config.name_or_path = BGE_M3
    /\ params0 = [n \in ParamNames |-> [shape |-> ParamShape, val |-> 0]]
    /\ params = params0
    /\ LoadIdle
    /\ ForwardIdle
    /\ \/ /\ mpc = "slots"
          /\ m_slots \in SlotTensors
          /\ m_mask = NoTensor
       \/ /\ mpc = "mask"
          /\ m_slots = NoTensor
          /\ m_mask \in MaskTensors
    /\ m_ret = Returned(NoTensor)

NextMask ==
    \/ MaskDerive /\ UNCHANGED <<ctor_vars, param_vars, load_vars, fwd_vars>>
    \/ MaskExtend /\ UNCHANGED <<ctor_vars, param_vars, load_vars, fwd_vars>>

SpecMask == InitMask /\ [][NextMask]_vars

-----------------------------------------------------------------------------
(* Properties of forward, under SpecForward *)

Finished == fpc \in {"returned", "raised"}

NumChunks(n) == IF n % ChunkSize = 0 THEN n \div ChunkSize ELSE n \div ChunkSize + 1

\* rows of the k-th chunk (k = 1, 2, ...) of n rows
ChunkRows(n, k) == IF k * ChunkSize <= n THEN ChunkSize ELSE n % ChunkSize

\* the tensor a chunk's result carries
Payload(x) == IF x.type = "Tensor" THEN x ELSE x.last_hidden_state

\* row j of tensor t
RowAt(t, j) == [idx \in IndexSet(Tail(t.shape)) |-> t.val[<<j>> \o idx]]

\* the encoder's hidden states for input row i taken alone
RowHidden(i) ==
    LET r_ids == SliceRows(input_ids, i, i + 1)
        mask == SlotsToMask(SliceRows(slot_mapping, i, i + 1))
        ext == GetExtendedAttentionMask(mask).value
        emb == Embeddings(r_ids, TokenTypeIds(r_ids.shape), params)
    IN Encoder(emb, ext, GetHeadMask("None", config.num_hidden_layers), params)

\* the result forward owes for input row i
RowResult(i) ==
    IF config.name_or_path = BGE_M3
    THEN RowAt(Normalize(DenseEmbedding(RowHidden(i), NoTensor)), 0)
    ELSE RowAt(RowHidden(i), 0)

\* C1: every forward call returns a tensor whose leading dimension is the
\* input's leading dimension N, for N >= 0 and any model name.
C1_ReturnsLeadingDim ==
    Finished =>
        /\ fpc = "returned"
        /\ result.value.type = "Tensor"
        /\ result.value.shape[1] = input_ids.shape[1]

\* C2: the chunks are processed one at a time in increasing start index and
\* their results are kept and concatenated in that order: the j-th row of the
\* k-th accumulated result is the result for input row 12(k-1)+j, and row i of
\* the returned tensor is the result for input row i.
C2_OrderPreserved ==
    /\ fpc = "encode" => start_index = ChunkSize * Len(tensor_list)
    /\ fpc # "idle" =>
          \A k \in 1..Len(tensor_list) :
             \A j \in 0..(Payload(tensor_list[k]).shape[1] - 1) :
                /\ (k - 1) * ChunkSize + j < input_ids.shape[1]
                /\ RowAt(Payload(tensor_list[k]), j) = RowResult((k - 1) * ChunkSize + j)
    /\ fpc = "returned" =>
          /\ result.value.shape[1] = input_ids.shape[1]
          /\ \A i \in 0..(input_ids.shape[1] - 1) :
                RowAt(result.value, i) = RowResult(i)

C2_Witness ==
    /\ fpc = "returned"
    /\ Len(tensor_list) = 3
    /\ RowAt(result.value, 0) # RowAt(result.value, ChunkSize)

C4_OtherNamesReturnHiddenStates ==
    (Finished /\ config.name_or_path # BGE_M3 /\ input_ids.shape[1] >= 1) =>
        /\ fpc = "returned"
        /\ result.value.type = "Tensor"
        /\ result.value.shape = <<input_ids.shape[1], SeqLen, Cardinality(HiddenIdx)>>

\* the hidden state of the first token of input row i
FirstTokenHidden(i) == [h \in HiddenIdx |-> RowHidden(i).val[<<0, 0, h>>]]

NormSq(v) == v[0] * v[0] + v[1] * v[1]

\* the squared L2 norm of output row i is 1
RowNormIsOne(i) ==
    LET x == result.value.val
    IN x[<<i, 0>>][1] * x[<<i, 0>>][1] + x[<<i, 1>>][1] * x[<<i, 1>>][1] = x[<<i, 0>>][2]

\* C5 as stated: for "BAAI/bge-m3" every output row is the first token's
\* hidden state divided by its L2 norm, and has L2 norm 1, whenever that hidden
\* state is non-zero.
C5_UnitNormWheneverNonZero ==
    (fpc = "returned" /\ config.name_or_path = BGE_M3) =>
        \A i \in 0..(input_ids.shape[1] - 1) :
           LET v == FirstTokenHidden(i)
           IN NormSq(v) # 0 =>
                 /\ \A h \in HiddenIdx : result.value.val[<<i, h>>] = <<v[h], NormSq(v)>>
                 /\ RowNormIsOne(i)

\* C5 amended: for "BAAI/bge-m3" every output row is the first token's hidden
\* state (whatever the attention mask) divided by the larger of its L2 norm and
\* the normalisation's eps, so it has L2 norm 1 whenever that norm is at least
\* eps.
C5_UnitNormFromEps ==
    (fpc = "returned" /\ config.name_or_path = BGE_M3) =>
        \A i \in 0..(input_ids.shape[1] - 1) :
           LET v == FirstTokenHidden(i)
           IN /\ \A h \in HiddenIdx :
                    result.value.val[<<i, h>>] = <<v[h], Max(NormSq(v), EPS * EPS)>>
              /\ NormSq(v) >= EPS * EPS => RowNormIsOne(i)

C5_Witness ==
    /\ fpc = "returned"
    /\ config.name_or_path = BGE_M3
    /\ \E i \in 0..(input_ids.shape[1] - 1) :
          /\ slot_mapping.val[<<i, 0>>] = UNUSED_SLOT
          /\ NormSq(FirstTokenHidden(i)) >= EPS * EPS
          /\ RowNormIsOne(i)

-----------------------------------------------------------------------------
(* Properties of load_weights and of the life cycle, under Spec *)

LoadEnded == lpc \in {"done", "KeyError", "AssertionError"}

Absent(src) == {k \in 1..Len(src) : src[k].name \notin ParamNames}

FirstAbsent(src) == CHOOSE k \in Absent(src) : \A m \in Absent(src) : k <= m

\* what parameter n holds once the first k pairs of the source were copied
ParamAfterPairs(n, k) ==
    LET js == {j \in 1..k : source[j].name = n}
    IN IF js = {} THEN params0[n]
       ELSE [shape |-> ParamShape,
             val |-> source[CHOOSE j \in js : \A m \in js : m <= j].val]

\* C6 as stated: when the k-th pair is the first with a name the model does
\* not have, the load ends with a lookup error at that pair, the parameters
\* named by pairs 1..k-1 hold the loaded tensors and every other parameter is
\* untouched.
C6_LookupErrorAtAbsentPair ==
    (LoadEnded /\ Absent(source) # {}) =>
        /\ lpc = "KeyError"
        /\ lidx = FirstAbsent(source) - 1
        /\ \A n \in ParamNames : params[n] = ParamAfterPairs(n, lidx)

\* C6 amended: the pairs are copied in the order yielded; when the k-th pair
\* is the first with a name the model does not have and every earlier pair's
\* tensor has its parameter's shape, the load ends with a lookup error at that
\* pair, the parameters named by pairs 1..k-1 hold the loaded tensors and every
\* other parameter is untouched.
C6_LookupErrorAfterCopies ==
    /\ ipc = "done" => \A n \in ParamNames : params[n] = ParamAfterPairs(n, lidx)
    /\ (/\ LoadEnded
        /\ Absent(source) # {}
        /\ \A j \in 1..(FirstAbsent(source) - 1) : source[j].shape = ParamShape) =>
            /\ lpc = "KeyError"
            /\ lidx = FirstAbsent(source) - 1

C6_Witness ==
    /\ lpc = "KeyError"
    /\ lidx = 1
    /\ Len(source) = 2
    /\ params[source[1].name].val = source[1].val
    /\ params # params0

Unsupported == linear_method = "QuantizedLinearMethod" \/ lora_config # "None"

\* C7: with a quantized linear method or any LoRA configuration __init__
\* raises before the external encoder is instantiated and before any attribute
\* is set, and never completes; with a null or unquantized linear method and no
\* LoRA configuration it does not raise on these checks.
C7_UnsupportedRefused ==
    /\ Unsupported =>
          /\ ipc \in {"start", "check_lora", "NotImplementedError"}
          /\ hf_model = FALSE
          /\ self_attrs = {}
          /\ ipc # "NotImplementedError" =>
                ENABLED (InitCheckQuantization \/ InitCheckLora)
    /\ ~Unsupported => ipc # "NotImplementedError"

C7_Witness ==
    /\ ipc = "NotImplementedError"
    /\ linear_method = "UnquantizedLinearMethod"
    /\ lora_config = "LoRAConfig"
    /\ hf_model = FALSE

\* C10: forward is never blocked or rejected on account of load_weights: it
\* can be called on a constructed instance before, during and after a load,
\* and it computes with the parameters as they are at that moment, the pairs
\* copied so far holding loaded values and the others their unloaded values.
C10_NoPhaseCheck ==
    /\ (ipc = "done" /\ fpc = "idle") => ENABLED ForwardCallLife
    /\ fpc = "encode" =>
          \E k \in 0..lidx :
             /\ \A n \in ParamNames :
                   ParamsAfter(params0, source, k)[n] = ParamAfterPairs(n, k)
             /\ embedding_output =
                   Embeddings(ids, TokenTypeIds(ids.shape),
                              ParamsAfter(params0, source, k))

C10_Witness ==
    /\ fpc = "encode"
    /\ lpc = "running"
    /\ lidx = 1
    /\ Len(source) = 2
    /\ source[2].name \in ParamNames \ {source[1].name}
    /\ source[2].shape = ParamShape
    /\ params[source[1].name].val = source[1].val
    /\ params[source[2].name] = params0[source[2].name]
    /\ embedding_output = Embeddings(ids, TokenTypeIds(ids.shape), params)
    /\ embedding_output # Embeddings(ids, TokenTypeIds(ids.shape), params0)

-----------------------------------------------------------------------------
(* Properties of get_extended_attention_mask, under SpecMask *)

Bias(m) == IF m = 1 THEN 0 ELSE FP16_MIN

\* C8: a rank-2 mask (B, L) expands to shape (B, 1, 1, L) and a rank-3 mask
\* (B, L1, L2) to (B, 1, L1, L2); every entry is 0 where the mask is 1 and the
\* most negative float16 where it is 0; the mask derived from a slot mapping is
\* 1 exactly where the slot is not -1.
C8_ExpandedMask ==
    /\ (mpc = "done" /\ Dim(m_mask) = 2) =>
          /\ m_ret.status = "ok"
          /\ m_ret.value.shape = <<m_mask.shape[1], 1, 1, m_mask.shape[2]>>
          /\ \A b \in 0..(m_mask.shape[1] - 1), l \in 0..(m_mask.shape[2] - 1) :
                m_ret.value.val[<<b, 0, 0, l>>] = Bias(m_mask.val[<<b, l>>])
    /\ (mpc = "done" /\ Dim(m_mask) = 3) =>
          /\ m_ret.status = "ok"
          /\ m_ret.value.shape = <<m_mask.shape[1], 1, m_mask.shape[2], m_mask.shape[3]>>
          /\ \A b \in 0..(m_mask.shape[1] - 1), q \in 0..(m_mask.shape[2] - 1),
                l \in 0..(m_mask.shape[3] - 1) :
                m_ret.value.val[<<b, 0, q, l>>] = Bias(m_mask.val[<<b, q, l>>])
    /\ (mpc \in {"mask", "done"} /\ m_slots # NoTensor) =>
          /\ m_mask.shape = m_slots.shape
          /\ \A idx \in DOMAIN m_slots.val :
                (m_mask.val[idx] = 1) <=> (m_slots.val[idx] # UNUSED_SLOT)
          /\ \A idx \in DOMAIN m_slots.val : m_mask.val[idx] \in {0, 1}

C8_Witness ==
    /\ mpc = "done"
    /\ m_mask.shape = <<1, 2, 2>>
    /\ m_ret.value.shape = <<1, 1, 2, 2>>
    /\ m_ret.value.val[<<0, 0, 0, 1>>] = FP16_MIN
    /\ m_ret.value.val[<<0, 0, 1, 0>>] = 0

\* C9: a mask of rank 1 or of rank 4 or more raises ValueError and no mask is
\* returned; the call returns exactly for ranks 2 and 3.
C9_OtherRanksRaise ==
    mpc = "done" =>
        /\ (m_ret.status = "ok") <=> (Dim(m_mask) \in {2, 3})
        /\ Dim(m_mask) \notin {2, 3} =>
              m_ret.status = "ValueError" /\ m_ret.value = NoTensor

C9_Witness ==
    /\ mpc = "done"
    /\ Dim(m_mask) = 4
    /\ m_ret.status = "ValueError"

====
